---- MODULE Spec2Model ----
(***************************************************************************)
(* Model of .travis/docker-update.py: the script that keeps the base-image *)
(* commit pinned in ./Dockerfile equal to the newest commit of             *)
(* numeconcopenhagen/jupyterlab-docker.                                    *)
(*                                                                         *)
(* Text is a sequence of one-character strings, so that the regular        *)
(* expression search and str.replace are computed character by character.  *)
(***************************************************************************)
EXTENDS Integers, Sequences, FiniteSets, TLC

VARIABLES
    Dockerfile,      \* the file ./Dockerfile: [exists, data]
    remote,          \* what the GitHub commits endpoint answers: [conn, status, body]
    pc,              \* pc[p]: the line invocation p is about to execute
    jupyterlab_sha,  \* jupyterlab_sha[p]: local of __main__, line 15
    docker_sha,      \* docker_sha[p]: local of __main__, line 16
    content,         \* content[p]: local of __main__, line 19
    out,             \* out[p]: the lines invocation p printed on standard output
    err,             \* err[p]: the exception that ended invocation p, or "none"
    steps,           \* steps[p]: the external operations of p's current run, in order
    seen,            \* seen[p]: what p's latest access found in the file
    interfered,      \* some access found the file changed by another invocation
    run,             \* number of the current run of invocation 1
    file0,           \* the file when the current run of invocation 1 began
    initFile         \* the file in the initial state

vars == <<Dockerfile, remote, pc, jupyterlab_sha, docker_sha, content, out, err,
          steps, seen, interfered, run, file0, initFile>>

-----------------------------------------------------------------------------
(* Bounds of the model                                                     *)

MaxChunks == 3
MaxRuns == 2

-----------------------------------------------------------------------------
(* Text                                                                    *)

Min(a, b) == IF a < b THEN a ELSE b

HexDigits == {"0", "1", "2", "3", "4", "5", "6", "7", "8", "9",
              "a", "b", "c", "d", "e", "f"}

HexSeq == <<"0", "1", "2", "3", "4", "5", "6", "7", "8", "9",
            "a", "b", "c", "d", "e", "f">>

\* the character class [0-9a-f] of REGEX
IsHex(c) == c \in HexDigits

\* the lookbehind literal of REGEX: "FROM numeconcopenhagen/jupyterlab-docker:"
Marker == <<"F", "R", "O", "M", " ", "n", "u", "m", "e", "c", "o", "n", "c", "o",
            "p", "e", "n", "h", "a", "g", "e", "n", "/", "j", "u", "p", "y", "t",
            "e", "r", "l", "a", "b", "-", "d", "o", "c", "k", "e", "r", ":">>

\* the quantifier {5,40} of REGEX
MinHexLen == 5
MaxHexLen == 40

\* Python values: a str, or None
PyStr(s) == [type |-> "str", s |-> s]
PyNone == [type |-> "NoneType", s |-> <<>>]

\* the least element of a non-empty set of integers
Least(S) == CHOOSE k \in S : \A j \in S : k <= j

\* number of consecutive [0-9a-f] characters of s from index i on
HexRun(s, i) ==
    LET stops == {j \in i..Len(s) : ~IsHex(s[j])} IN
    (IF stops = {} THEN Len(s) + 1 ELSE Least(stops)) - i

\* (?<=FROM numeconcopenhagen/jupyterlab-docker:) at index i
LookBehind(s, i) ==
    /\ i > Len(Marker)
    /\ s[i - 1] = Marker[Len(Marker)]
    /\ SubSeq(s, i - Len(Marker), i - 1) = Marker

\* a slip: the quantifier is {1,40}
MatchAtAnyHex(s, i) == LookBehind(s, i) /\ HexRun(s, i) >= 1

\* REGEX matches at index i
MatchAt(s, i) == LookBehind(s, i) /\ HexRun(s, i) >= MinHexLen

\* re.search tries the start positions from left to right; 0 when none matches
FirstMatch(s) ==
    LET starts == {i \in 1..Len(s) : MatchAt(s, i)} IN
    IF starts = {} THEN 0 ELSE Least(starts)

\* a slip: the quantifier is lazy, {5,40}?
ReSearchLazy(s) ==
    LET i == FirstMatch(s) IN
    IF i = 0 THEN [found |-> FALSE, group |-> <<>>]
    ELSE [found |-> TRUE, group |-> SubSeq(s, i, i + MinHexLen - 1)]

\* re.search(REGEX, s): a match object [found, group], the quantifier is greedy
ReSearch(s) ==
    LET i == FirstMatch(s) IN
    IF i = 0 THEN [found |-> FALSE, group |-> <<>>]
    ELSE [found |-> TRUE,
          group |-> SubSeq(s, i, i + Min(HexRun(s, i), MaxHexLen) - 1)]

OccursAt(s, old, i) ==
    /\ i + Len(old) - 1 <= Len(s)
    /\ SubSeq(s, i, i + Len(old) - 1) = old

\* the first occurrence of old in s at or after index i; 0 when there is none
NextOcc(s, old, i) ==
    LET occ == {j \in i..Len(s) : OccursAt(s, old, j)} IN
    IF occ = {} THEN 0 ELSE Least(occ)

\* the scan of str.replace from index i on: copy up to the next occurrence,
\* put new in its place, go on behind it
RECURSIVE ReplaceFrom(_, _, _, _)
ReplaceFrom(s, old, new, i) ==
    LET j == NextOcc(s, old, i) IN
    IF j = 0 THEN SubSeq(s, i, Len(s))
    ELSE SubSeq(s, i, j - 1) \o new \o ReplaceFrom(s, old, new, j + Len(old))

\* a slip: only the first occurrence is replaced
ReplaceFirstOnly(s, old, new) ==
    LET i == NextOcc(s, old, 1) IN
    IF i = 0 THEN s
    ELSE SubSeq(s, 1, i - 1) \o new \o SubSeq(s, i + Len(old), Len(s))

\* str.replace(old, new) for a non-empty old: every non-overlapping occurrence,
\* found from left to right
Replace(s, old, new) == ReplaceFrom(s, old, new, 1)

\* print(f"The new tag is: {jupyterlab_sha}")
NewTagPrefix == <<"T", "h", "e", " ", "n", "e", "w", " ", "t", "a", "g", " ",
                  "i", "s", ":", " ">>
\* print("The tag is update to date")
UpToDateMsg == <<"T", "h", "e", " ", "t", "a", "g", " ", "i", "s", " ", "u", "p",
                 "d", "a", "t", "e", " ", "t", "o", " ", "d", "a", "t", "e">>

-----------------------------------------------------------------------------
(* The commits endpoint                                                    *)

\* the JSON documents the endpoint may answer with; items are the objects of
\* an array, each with its keys and the value under "sha"
JsonArray(items) == [json |-> TRUE, kind |-> "array", items |-> items]
JsonObject == [json |-> TRUE, kind |-> "object", items |-> <<>>]
NotJson == [json |-> FALSE, kind |-> "text", items |-> <<>>]
Commit(sha) == [keys |-> {"sha", "commit", "url"}, sha |-> sha]
NoShaItem == [keys |-> {"message"}, sha |-> PyNone]

\* get_latest_jupyterlabdockerfile_sha(): requests.get(...), then r.json()[0]['sha'];
\* r.status_code is never read
FetchLatest(r) ==
    IF ~r.conn THEN [ok |-> FALSE, value |-> PyNone, error |-> "ConnectionError"]
    ELSE IF ~r.body.json THEN [ok |-> FALSE, value |-> PyNone, error |-> "JSONDecodeError"]
    ELSE IF r.body.kind = "object" THEN [ok |-> FALSE, value |-> PyNone, error |-> "KeyError"]
    ELSE IF r.body.items = <<>> THEN [ok |-> FALSE, value |-> PyNone, error |-> "IndexError"]
    ELSE IF "sha" \notin r.body.items[1].keys
         THEN [ok |-> FALSE, value |-> PyNone, error |-> "KeyError"]
    ELSE [ok |-> TRUE, value |-> r.body.items[1].sha, error |-> "none"]

FetchErrors == {"ConnectionError", "JSONDecodeError", "KeyError", "IndexError"}

-----------------------------------------------------------------------------
(* Invocations of the script                                               *)

Procs == {1, 2}
Other(p) == Procs \ {p}

NoFile == [exists |-> FALSE, data |-> <<>>]
File(t) == [exists |-> TRUE, data |-> t]

\* the file is open for writing by another invocation: truncated, not yet written
InWriteWindow(p) == \E q \in Other(p) : pc[q] = "write"

\* an access of p finds the file changed since p's previous access, or open
\* for writing elsewhere
Disturbed(p) ==
    \/ InWriteWindow(p)
    \/ seen[p] # <<>> /\ seen[p] # <<Dockerfile>>

Raise(p, e) ==
    /\ err' = [err EXCEPT ![p] = e]
    /\ pc' = [pc EXCEPT ![p] = "done"]

Goto(p, l) ==
    /\ pc' = [pc EXCEPT ![p] = l]
    /\ UNCHANGED err

Did(p, ev) == steps' = [steps EXCEPT ![p] = Append(@, ev)]

\* a slip: the file is read before the endpoint is asked
OrderExtractFirst == <<"extract", "fetch", "compare">>

\* the order of the statements of lines 15, 16 and 17
Order == <<"fetch", "extract", "compare">>

FirstLine == Order[1]
After(l) == Order[(CHOOSE i \in 1..Len(Order) : Order[i] = l) + 1]

\* line 15: jupyterlab_sha = get_latest_jupyterlabdockerfile_sha()
Fetch(p) ==
    /\ pc[p] = "fetch"
    /\ Did(p, "GET")
    /\ LET r == FetchLatest(remote) IN
       IF r.ok
       THEN /\ jupyterlab_sha' = [jupyterlab_sha EXCEPT ![p] = r.value]
            /\ Goto(p, After("fetch"))
       ELSE /\ Raise(p, r.error)
            /\ UNCHANGED jupyterlab_sha
    /\ UNCHANGED <<Dockerfile, remote, docker_sha, content, out, seen, interfered,
                   run, file0, initFile>>

\* line 16: docker_sha = get_dockerfile_sha()  (lines 6-8)
Extract(p) ==
    /\ pc[p] = "extract"
    /\ Did(p, "open_r")
    /\ interfered' = (interfered \/ Disturbed(p))
    /\ seen' = [seen EXCEPT ![p] = <<Dockerfile>>]
    /\ IF ~Dockerfile.exists
       THEN Raise(p, "FileNotFoundError") /\ UNCHANGED docker_sha
       ELSE LET m == ReSearch(Dockerfile.data) IN
            IF ~m.found
            THEN Raise(p, "AttributeError") /\ UNCHANGED docker_sha
            ELSE /\ docker_sha' = [docker_sha EXCEPT ![p] = PyStr(m.group)]
                 /\ Goto(p, After("extract"))
    /\ UNCHANGED <<Dockerfile, remote, jupyterlab_sha, content, out, run, file0,
                   initFile>>

\* a slip: the comparison of line 17 always takes the rewriting branch
CompareAlwaysDiffers(a, b) == TRUE

\* line 17: jupyterlab_sha != docker_sha
Differs(a, b) == a # b

\* line 17, and lines 23-24 when the two are equal
Compare(p) ==
    /\ pc[p] = "compare"
    /\ IF Differs(jupyterlab_sha[p], docker_sha[p])
       THEN /\ Goto(p, "read")
            /\ UNCHANGED <<out, steps>>
       ELSE /\ out' = [out EXCEPT ![p] = Append(@, UpToDateMsg)]
            /\ Did(p, "print")
            /\ Goto(p, "done")
    /\ UNCHANGED <<Dockerfile, remote, jupyterlab_sha, docker_sha, content, seen,
                   interfered, run, file0, initFile>>

\* lines 18-19: content = f1.read()
ReadContent(p) ==
    /\ pc[p] = "read"
    /\ Did(p, "open_r")
    /\ interfered' = (interfered \/ Disturbed(p))
    /\ seen' = [seen EXCEPT ![p] = <<Dockerfile>>]
    /\ IF ~Dockerfile.exists
       THEN Raise(p, "FileNotFoundError") /\ UNCHANGED content
       ELSE /\ content' = [content EXCEPT ![p] = Dockerfile.data]
            /\ Goto(p, "open_w")
    /\ UNCHANGED <<Dockerfile, remote, jupyterlab_sha, docker_sha, out, run, file0,
                   initFile>>

\* line 20: open('Dockerfile', 'w') creates or truncates the file
OpenWrite(p) ==
    /\ pc[p] = "open_w"
    /\ Did(p, "open_w")
    /\ interfered' = (interfered \/ Disturbed(p))
    /\ Dockerfile' = File(<<>>)
    /\ seen' = [seen EXCEPT ![p] = <<File(<<>>)>>]
    /\ Goto(p, "write")
    /\ UNCHANGED <<remote, jupyterlab_sha, docker_sha, content, out, run, file0,
                   initFile>>

\* a slip: the text is written back as it was read
WrittenUnchanged(c, old, new) == c

\* the text line 21 hands to f2.write
Written(c, old, new) == Replace(c, old, new)

\* line 21: f2.write(content.replace(docker_sha, jupyterlab_sha)), then the file
\* is closed; str.replace raises TypeError for an argument that is not a str
Write(p) ==
    /\ pc[p] = "write"
    /\ interfered' = (interfered \/ Disturbed(p))
    /\ IF jupyterlab_sha[p].type # "str"
       THEN /\ Raise(p, "TypeError")
            /\ UNCHANGED <<Dockerfile, steps, seen>>
       ELSE /\ Dockerfile' = File(Written(content[p], docker_sha[p].s,
                                          jupyterlab_sha[p].s))
            /\ seen' = [seen EXCEPT ![p] = <<Dockerfile'>>]
            /\ Did(p, "write")
            /\ Goto(p, "print")
    /\ UNCHANGED <<remote, jupyterlab_sha, docker_sha, content, out, run, file0,
                   initFile>>

\* line 21 when the operating system refuses the data (disk full, I/O error):
\* the text is still in the buffer of f2, the file stays truncated
WriteFail(p) ==
    /\ pc[p] = "write"
    /\ jupyterlab_sha[p].type = "str"
    /\ interfered' = (interfered \/ Disturbed(p))
    /\ Raise(p, "OSError")
    /\ UNCHANGED <<Dockerfile, remote, jupyterlab_sha, docker_sha, content, out,
                   steps, seen, run, file0, initFile>>

\* line 22: print(f"The new tag is: {jupyterlab_sha}")
PrintNewTag(p) ==
    /\ pc[p] = "print"
    /\ out' = [out EXCEPT ![p] = Append(@, NewTagPrefix \o jupyterlab_sha[p].s)]
    /\ Did(p, "print")
    /\ Goto(p, "done")
    /\ UNCHANGED <<Dockerfile, remote, jupyterlab_sha, docker_sha, content, seen,
                   interfered, run, file0, initFile>>

\* the script is started again after it ended (the next CI job); the endpoint
\* answers as before
Restart(p) ==
    /\ pc[p] = "done"
    /\ run < MaxRuns
    /\ run' = run + 1
    /\ file0' = Dockerfile
    /\ pc' = [pc EXCEPT ![p] = FirstLine]
    /\ err' = [err EXCEPT ![p] = "none"]
    /\ jupyterlab_sha' = [jupyterlab_sha EXCEPT ![p] = PyNone]
    /\ docker_sha' = [docker_sha EXCEPT ![p] = PyNone]
    /\ content' = [content EXCEPT ![p] = <<>>]
    /\ out' = [out EXCEPT ![p] = <<>>]
    /\ steps' = [steps EXCEPT ![p] = <<>>]
    /\ seen' = [seen EXCEPT ![p] = <<>>]
    /\ UNCHANGED <<Dockerfile, remote, interfered, initFile>>

-----------------------------------------------------------------------------
(* Initial states                                                          *)

\* pieces of text the initial Dockerfile is put together from
Hex5 == <<"a", "a", "a", "a", "a">>
Hex4 == <<"a", "a", "a", "a">>
Hex36 == [i \in 1..36 |-> HexSeq[((i - 1) % 16) + 1]]
Newline == <<"\n">>
Chunks == {Marker, Hex5, Hex4, Hex36, Newline}

RECURSIVE Texts(_)
Texts(n) ==
    IF n = 0 THEN {<<>>}
    ELSE LET T == Texts(n - 1) IN T \cup {t \o c : t \in T, c \in Chunks}

\* the commit ids the endpoint may report: a full SHA-1 and an abbreviated one
Sha40 == Hex36 \o Hex4
LatestShas == {PyStr(Sha40), PyStr(Hex5)}

Bodies == {NotJson, JsonObject, JsonArray(<<>>), JsonArray(<<NoShaItem>>)}
          \cup {JsonArray(<<Commit(v)>>) : v \in LatestShas \cup {PyNone}}
Statuses == {200, 500}
Remotes == {[conn |-> FALSE, status |-> 0, body |-> NotJson]}
           \cup {[conn |-> TRUE, status |-> st, body |-> b] : st \in Statuses, b \in Bodies}

InitProc(f, r) ==
    /\ Dockerfile = f
    /\ remote = r
    /\ pc = [p \in Procs |-> FirstLine]
    /\ jupyterlab_sha = [p \in Procs |-> PyNone]
    /\ docker_sha = [p \in Procs |-> PyNone]
    /\ content = [p \in Procs |-> <<>>]
    /\ out = [p \in Procs |-> <<>>]
    /\ err = [p \in Procs |-> "none"]
    /\ steps = [p \in Procs |-> <<>>]
    /\ seen = [p \in Procs |-> <<>>]
    /\ interfered = FALSE
    /\ run = 1
    /\ file0 = f
    /\ initFile = f

\* one invocation at a time: invocation 1 runs, and is run again
Init ==
    \E f \in {NoFile} \cup {File(t) : t \in Texts(MaxChunks)} :
       \E r \in Remotes : InitProc(f, r)

Step(p) ==
    \/ Fetch(p)
    \/ Extract(p)
    \/ Compare(p)
    \/ ReadContent(p)
    \/ OpenWrite(p)
    \/ Write(p)
    \/ WriteFail(p)
    \/ PrintNewTag(p)

Next == Step(1) \/ Restart(1)

Spec == Init /\ [][Next]_vars

\* two invocations started together on the same file, each run once, with no
\* I/O error; the endpoint answers both the same
InitConc == Init

StepConc(p) ==
    \/ Fetch(p)
    \/ Extract(p)
    \/ Compare(p)
    \/ ReadContent(p)
    \/ OpenWrite(p)
    \/ Write(p)
    \/ PrintNewTag(p)

NextConc == \E p \in Procs : StepConc(p)

SpecConc == InitConc /\ [][NextConc]_vars

\* lines 14-24 run from start to end with nothing in between: the file one
\* invocation leaves behind when it finds the file f and the endpoint answers r
Synchronize(f, r) ==
    LET latest == FetchLatest(r) IN
    IF ~latest.ok \/ ~f.exists THEN f
    ELSE LET m == ReSearch(f.data) IN
         IF ~m.found THEN f
         ELSE IF latest.value = PyStr(m.group) THEN f
         ELSE IF latest.value.type # "str" THEN File(<<>>)
         ELSE File(Replace(f.data, m.group, latest.value.s))

-----------------------------------------------------------------------------
(* What the properties speak about, stated without the search and the      *)
(* replacement of the script                                               *)

\* the operations invocation p has performed in its current run
Events(p) == {steps[p][i] : i \in 1..Len(steps[p])}

\* the indexes right behind an occurrence of the marker
MarkerEnds(s) ==
    {i \in (Len(Marker) + 1)..(Len(s) + 1) :
        \A k \in 1..Len(Marker) : s[i - Len(Marker) + k - 1] = Marker[k]}

\* the length of the longest string of hex digits that starts at index i
RunLen(s, i) ==
    CHOOSE n \in 0..(Len(s) - i + 1) :
        /\ \A k \in i..(i + n - 1) : s[k] \in HexDigits
        /\ i + n <= Len(s) => s[i + n] \notin HexDigits

\* where a marker is followed by at least MinHexLen hex digits
PinnedStarts(s) == {i \in MarkerEnds(s) : RunLen(s, i) >= MinHexLen}

\* the file holds a marker followed by hex digits the pattern accepts
HasPinned(f) == f.exists /\ PinnedStarts(f.data) # {}

\* the hex string behind the first such marker
PinnedRef(s) ==
    LET i == Least(PinnedStarts(s)) IN SubSeq(s, i, i + RunLen(s, i) - 1)

\* the file holds a pinned reference: that hex string has 5 to 40 characters
ValidPinned(f) == HasPinned(f) /\ Len(PinnedRef(f.data)) <= MaxHexLen

\* t occurs in s
Contains(s, t) ==
    \E i \in 1..(Len(s) - Len(t) + 1) : SubSeq(s, i, i + Len(t) - 1) = t

\* the indexes at which old occurs in s
Occurrences(s, old) ==
    {i \in 1..(Len(s) - Len(old) + 1) :
        \A k \in 1..Len(old) : s[i + k - 1] = old[k]}

\* the occurrences a scan from the left takes: each occurrence that no taken
\* occurrence before it overlaps
Taken(s, old) ==
    LET occ == Occurrences(s, old) IN
    CHOOSE S \in SUBSET occ :
        \A i \in occ : i \in S <=> ~\E j \in S : j < i /\ i < j + Len(old)

\* after is before with the occurrences of old at the indexes S replaced by
\* new, and every other character kept in place
ReplacedAt(before, after, old, new, S) ==
    LET d == Len(new) - Len(old)
        shift(i) == Cardinality({j \in S : j < i}) * d
        covered(i) == \E j \in S : j <= i /\ i < j + Len(old)
    IN /\ Len(after) = Len(before) + Cardinality(S) * d
       /\ \A i \in 1..Len(before) : ~covered(i) => after[i + shift(i)] = before[i]
       /\ \A j \in S : SubSeq(after, j + shift(j), j + shift(j) + Len(new) - 1) = new

\* the run of invocation 1 has rewritten the file and ended
Rewrote == pc[1] = "done" /\ err[1] = "none" /\ "write" \in Events(1)

\* the answer of the endpoint has the shape the script expects
Usable(r) ==
    /\ r.conn
    /\ r.body.json
    /\ r.body.kind = "array"
    /\ Len(r.body.items) >= 1
    /\ "sha" \in r.body.items[1].keys

-----------------------------------------------------------------------------
(* Properties                                                              *)

\* C1, as the specification states it: a run that rewrites the file replaces
\* exactly the first occurrence of the old reference by the new one and
\* leaves everything else as it was.
C1_FirstOccurrenceOnly ==
    Rewrote =>
        ReplacedAt(file0.data, Dockerfile.data, docker_sha[1].s, jupyterlab_sha[1].s,
                   {Least(Occurrences(file0.data, docker_sha[1].s))})

\* C1, amended: a run that rewrites the file replaces every occurrence of the
\* old reference that a scan from the left finds (occurrences do not overlap)
\* by the new one and leaves everything else as it was.
C1_EveryOccurrence ==
    Rewrote =>
        ReplacedAt(file0.data, Dockerfile.data, docker_sha[1].s, jupyterlab_sha[1].s,
                   Taken(file0.data, docker_sha[1].s))

\* the file was rewritten and held the old reference more than once
C1_Witness ==
    /\ Rewrote
    /\ Cardinality(Taken(file0.data, docker_sha[1].s)) >= 2

\* C2: when the reference extracted from the file equals the latest one, the
\* file is never opened for writing, its content stays what it was when the
\* run began, and the only message is "The tag is update to date".
C2_UpToDateNoWrite ==
    (docker_sha[1] # PyNone /\ jupyterlab_sha[1] = docker_sha[1]) =>
        /\ "open_w" \notin Events(1)
        /\ Dockerfile = file0
        /\ err[1] = "none"
        /\ out[1] = (IF pc[1] = "done" THEN <<UpToDateMsg>> ELSE <<>>)

C2_Witness ==
    /\ pc[1] = "done"
    /\ docker_sha[1] # PyNone
    /\ jupyterlab_sha[1] = docker_sha[1]
    /\ out[1] = <<UpToDateMsg>>

\* the endpoint reports a full commit id, of MaxHexLen hex digits
FullSha(r) ==
    /\ Usable(r)
    /\ r.body.items[1].sha.type = "str"
    /\ Len(r.body.items[1].sha.s) = MaxHexLen

\* C3: when the initial file holds a pinned reference (or a marker followed
\* by more than 40 hex digits, the endpoint reporting a full commit id),
\* every run after the first one, with the endpoint answering the same,
\* leaves the file as it found it and never opens it for writing; if it ends
\* without an error its message is "The tag is update to date".
C3_SecondRunNoChange ==
    (run >= 2 /\ (ValidPinned(initFile) \/ (HasPinned(initFile) /\ FullSha(remote)))) =>
        /\ Dockerfile = file0
        /\ "open_w" \notin Events(1)
        /\ (pc[1] = "done" /\ err[1] = "none") => out[1] = <<UpToDateMsg>>

\* the first run rewrote the file and the second one has ended
C3_Witness ==
    /\ run = 2
    /\ pc[1] = "done"
    /\ err[1] = "none"
    /\ ValidPinned(initFile)
    /\ Dockerfile # initFile

C5_NewTagWritten ==
    (pc[1] = "done" /\ err[1] = "none" /\ jupyterlab_sha[1] # docker_sha[1]) =>
        /\ Dockerfile.exists
        /\ Contains(Dockerfile.data, Marker \o jupyterlab_sha[1].s)
        /\ out[1] = <<NewTagPrefix \o jupyterlab_sha[1].s>>

C5_Witness ==
    /\ pc[1] = "done"
    /\ err[1] = "none"
    /\ jupyterlab_sha[1] # docker_sha[1]
    /\ Dockerfile # file0

\* C6, as the specification states it: a run that ends in an error leaves
\* the file as it was when the run began.
C6_ErrorLeavesFile ==
    (pc[1] = "done" /\ err[1] # "none") => Dockerfile = file0

\* C7: when the file holds no marker followed by at least 5 hex digits, the
\* extraction returns nothing, nothing is printed, the file is not opened for
\* writing and stays as it was; the run ends in an error, which is the
\* AttributeError of the extraction whenever the file was read.
C7_NoReferenceFails ==
    (file0.exists /\ ~HasPinned(file0)) =>
        /\ docker_sha[1] = PyNone
        /\ out[1] = <<>>
        /\ "open_w" \notin Events(1)
        /\ Dockerfile = file0
        /\ pc[1] = "done" => err[1] \in FetchErrors \cup {"AttributeError"}
        /\ Len(steps[1]) >= 2 => pc[1] = "done" /\ err[1] = "AttributeError"

\* the extraction failed on a file that has the marker, followed by too few
\* hex digits
C7_Witness ==
    /\ file0.exists
    /\ ~HasPinned(file0)
    /\ MarkerEnds(file0.data) # {}
    /\ Contains(file0.data, Marker \o Hex4)
    /\ err[1] = "AttributeError"

\* C8, as the specification states it: after a non-2xx answer the fetch
\* returns no reference and the run ends in an error with no further step.
C8_Non2xxAborts ==
    (remote.conn /\ remote.status \notin 200..299 /\ "GET" \in Events(1)) =>
        /\ pc[1] = "done"
        /\ err[1] # "none"
        /\ jupyterlab_sha[1] = PyNone
        /\ steps[1] = <<"GET">>

IsPrefix(a, b) == Len(a) <= Len(b) /\ SubSeq(b, 1, Len(a)) = a

\* C9, as the specification states it: the file is read before the endpoint
\* is asked; no request is sent when the file is missing or holds no
\* reference, and then the run ends with the error of the file.
C9_ExtractBeforeFetch ==
    /\ steps[1] # <<>> => steps[1][1] = "open_r"
    /\ ~HasPinned(file0) =>
          /\ "GET" \notin Events(1)
          /\ pc[1] = "done" => err[1] \in {"FileNotFoundError", "AttributeError"}

\* C9, amended: the endpoint is asked first, then the file is read and the
\* reference extracted, then the two are compared and the file is rewritten
\* if they differ; when the fetch fails the file is never opened, and the run
\* ends with the error of the fetch also when the extraction would fail.
C9_FetchBeforeExtract ==
    /\ \/ IsPrefix(steps[1], <<"GET", "open_r", "print">>)
       \/ IsPrefix(steps[1], <<"GET", "open_r", "open_r", "open_w", "write", "print">>)
    /\ (pc[1] = "done" /\ ~Usable(remote)) =>
          /\ steps[1] = <<"GET">>
          /\ err[1] \in FetchErrors

\* the fetch failed in a run whose file has no reference to extract
C9_Witness ==
    /\ pc[1] = "done"
    /\ ~Usable(remote)
    /\ ~HasPinned(file0)
    /\ err[1] \in FetchErrors

\* the file two invocations leave behind when one runs after the other has
\* ended; the two run the same script against the same answer, so both orders
\* give the same file
SerialResults == {Synchronize(Synchronize(initFile, remote), remote)}

AllDone == \A p \in Procs : pc[p] = "done"

\* C10: two invocations interleaved on the same file can leave behind a file
\* that neither sequential order produces (C10_Witness is such a final
\* state); this takes an access that finds the file changed or opened for
\* writing by the other invocation: when no access did, the final file is
\* the one a sequential order produces.
C10_UndisturbedIsSerial ==
    (AllDone /\ ~interfered) => Dockerfile \in SerialResults

\* both invocations ended without an error, and the file they leave behind is
\* empty, which no sequential order produces
C10_Witness ==
    /\ AllDone
    /\ \A p \in Procs : err[p] = "none"
    /\ ValidPinned(initFile)
    /\ Dockerfile = File(<<>>)
    /\ Dockerfile \notin SerialResults

====
